---- MODULE Spec2Model ----
(***************************************************************************)
(* Model of silver-lelantus: commitment scheme, chained-hash accumulator,  *)
(* witnesses, proofs, JoinSplit assembly and the LelantusState facade.     *)
(*                                                                         *)
(* Byte strings (Vec<u8>) are "blobs": records [id, len] where id names    *)
(* the content and len is the byte length.  Feeding several slices to one  *)
(* hasher concatenates them (Cat), and a hash is an injective constructor  *)
(* over the concatenated content with the digest's fixed output length.    *)
(* Witness::encrypted_value, the one buffer the code slices by byte        *)
(* offset, is a sequence of byte tokens <<id, i>> (byte i of blob id).     *)
(***************************************************************************)
EXTENDS Integers, Sequences, FiniteSets, TLC

VARIABLES accumulator, witness_cache, proof, adds, args, result,
          lock, pc, hist

vars == <<accumulator, witness_cache, proof, adds, args, result, lock, pc, hist>>

\* the values of the locks, the calling threads and the cache history in
\* specifications with one caller and no cache history; writer, exclusive and
\* readers are the state of the accumulator lock, cache_writer is the holder
\* of the witness-cache lock
Unlocked == [writer |-> "", exclusive |-> FALSE, readers |-> {}, cache_writer |-> ""]

NoThreads == <<>>

NoHistory == <<>>

(***************************************************************************)
(* Results and byte strings                                                *)
(***************************************************************************)
Ok(v) == [ok |-> TRUE, val |-> v]

Err(e) == [ok |-> FALSE, err |-> e]

None == [some |-> FALSE]

Some(v) == [some |-> TRUE, val |-> v]

Blob(id, len) == [id |-> id, len |-> len]

EmptyBlob == Blob("", 0)

is_empty(b) == b.len = 0

\* hasher.update(a); hasher.update(b): the hasher sees the concatenation
Cat(a, b) == Blob(a.id \o b.id, a.len + b.len)

RECURSIVE CatAll(_)
CatAll(bs) == IF bs = <<>> THEN EmptyBlob ELSE Cat(Head(bs), CatAll(Tail(bs)))

\* byte view of a blob, and the blob naming a byte slice
ToBytes(b) == [i \in 1..b.len |-> <<b.id, i>>]

\* a slice is named by its runs of consecutive bytes of one blob
RunEnd(bytes, k) ==
    CHOOSE j \in k..Len(bytes) :
        /\ \A m \in k..j : /\ bytes[m][1] = bytes[k][1]
                            /\ bytes[m][2] = bytes[k][2] + (m - k)
        /\ \/ j = Len(bytes)
           \/ bytes[j + 1][1] # bytes[k][1]
           \/ bytes[j + 1][2] # bytes[k][2] + (j + 1 - k)

RECURSIVE RunsName(_, _)
RunsName(bytes, k) ==
    IF k > Len(bytes) THEN ""
    ELSE LET j == RunEnd(bytes, k)
         IN  bytes[k][1] \o "[" \o ToString(bytes[k][2]) \o ":"
             \o ToString(bytes[j][2]) \o "]" \o RunsName(bytes, j + 1)

BlobOf(bytes) == Blob(RunsName(bytes, 1), Len(bytes))

\* u64 / usize to_le_bytes(): 8 bytes
U64_MAX == 2147483647

LE_BYTES == 8

to_le_bytes(n) == Blob("le(" \o ToString(n) \o ")", LE_BYTES)

checked_add(a, b) == IF a > U64_MAX - b THEN None ELSE Some(a + b)

\* digest sizes: hex-encoded SHA-512, raw BLAKE3, raw HMAC-SHA512
SHA512_HEX_LEN == 128

BLAKE3_LEN == 32

HMAC_SHA512_LEN == 64

Sha512Hex(data) == Blob("sha512(" \o data.id \o ")", SHA512_HEX_LEN)

Blake3(data) == Blob("blake3(" \o data.id \o ")", BLAKE3_LEN)

HmacSha512(key, data) ==
    Blob("hmac(" \o key.id \o ";" \o data.id \o ")", HMAC_SHA512_LEN)

(***************************************************************************)
(* Parameters (parameters.rs)                                              *)
(***************************************************************************)
MaxCoinValue == 3

MIN_COIN_VALUE == 1

RANDOMNESS_BITS == 512

RANGE_PROOF_BITS == 128

ACCUMULATOR_MODULUS_BITS == 4096

BASE_LEN == 512

parameters ==
    [ accumulator_modulus_bits |-> ACCUMULATOR_MODULUS_BITS,
      randomness_bits |-> RANDOMNESS_BITS,
      range_proof_bits |-> RANGE_PROOF_BITS,
      max_coin_value |-> MaxCoinValue,
      min_coin_value |-> MIN_COIN_VALUE,
      accumulator_base |-> Blob("base", BASE_LEN),
      generator |-> Blob("gen", BASE_LEN) ]

validate(p) ==
    IF p.accumulator_modulus_bits < 1024 THEN Err("InvalidParameter")
    ELSE IF p.randomness_bits < 512 THEN Err("InvalidParameter")
    ELSE IF p.range_proof_bits < 32 THEN Err("InvalidParameter")
    ELSE IF p.max_coin_value <= p.min_coin_value THEN Err("InvalidParameter")
    ELSE IF is_empty(p.accumulator_base) \/ is_empty(p.generator)
         THEN Err("InvalidParameter")
    ELSE Ok(TRUE)

(***************************************************************************)
(* CommitmentScheme (commitment.rs)                                        *)
(***************************************************************************)
\* what rand::thread_rng() can deliver for n bytes: NumRandom distinct draws
NumRandom == 2

Draw(k, n) == Blob("r" \o ToString(k), n)

RandomBytes(n) == { Draw(k, n) : k \in 1..NumRandom }

\* commit(value) with rnd the randomness the generator delivered
commit(value, rnd) ==
    IF value > parameters.max_coin_value THEN Err("InvalidCommitment")
    ELSE IF value < parameters.min_coin_value THEN Err("InvalidCommitment")
    ELSE Ok([ value |-> Sha512Hex(CatAll(<<parameters.generator,
                                           to_le_bytes(value), rnd>>)),
              randomness |-> rnd ])

\* commit_with_randomness feeding the hasher in another order than commit
commit_with_randomness_reordered(value, randomness) ==
    IF value > parameters.max_coin_value THEN Err("InvalidCommitment")
    ELSE IF randomness.len # parameters.randomness_bits \div 8
         THEN Err("InvalidCommitment")
    ELSE Ok([ value |-> Sha512Hex(CatAll(<<parameters.generator, randomness,
                                           to_le_bytes(value)>>)),
              randomness |-> randomness ])

commit_with_randomness(value, randomness) ==
    IF value > parameters.max_coin_value THEN Err("InvalidCommitment")
    ELSE IF randomness.len # parameters.randomness_bits \div 8
         THEN Err("InvalidCommitment")
    ELSE Ok([ value |-> Sha512Hex(CatAll(<<parameters.generator,
                                           to_le_bytes(value), randomness>>)),
              randomness |-> randomness ])

\* CommitmentScheme::verify: `?` propagates the error of the recomputation
commitment_verify(commitment, value) ==
    LET recomputed == commit_with_randomness(value, commitment.randomness)
    IN  IF ~recomputed.ok THEN recomputed
        ELSE Ok(recomputed.val.value = commitment.value)

to_element(commitment) == [value |-> commitment.value]

\* serde_json::to_vec of Commitment {value, randomness}
JsonBytes(b) == "[" \o b.id \o "]"

commitment_serialize(c) ==
    LET text == "{value:" \o JsonBytes(c.value) \o ",randomness:"
                \o JsonBytes(c.randomness) \o "}"
    IN  Blob(text, Len(text))

(***************************************************************************)
(* Accumulator (accumulator.rs)                                            *)
(***************************************************************************)
accumulator_new ==
    IF ~validate(parameters).ok THEN validate(parameters)
    ELSE Ok([ value |-> Sha512Hex(parameters.accumulator_base),
              elements |-> <<>> ])

\* add_element that updates the value but forgets to log the element
add_element_unlogged(acc, element) ==
    [ value |-> Sha512Hex(Cat(acc.value, element.value)),
      elements |-> acc.elements ]

\* add_element that restarts the log at the new element
add_element_restarting(acc, element) ==
    [ value |-> Sha512Hex(Cat(acc.value, element.value)),
      elements |-> <<element>> ]

add_element(acc, element) ==
    [ value |-> Sha512Hex(Cat(acc.value, element.value)),
      elements |-> Append(acc.elements, element) ]

element_count(acc) == Len(acc.elements)

RECURSIVE JsonElements(_)
JsonElements(es) ==
    IF es = <<>> THEN ""
    ELSE "{value:" \o JsonBytes(Head(es).value) \o "}" \o JsonElements(Tail(es))

\* a serialization that skips the value and the element log
accumulator_serialize_parameters_only(acc) ==
    LET text == "{parameters:" \o ToString(parameters.max_coin_value) \o "}"
    IN  Blob(text, Len(text))

\* serde_json::to_vec of Accumulator {value, elements, parameters}
accumulator_serialize(acc) ==
    LET text == "{value:" \o JsonBytes(acc.value) \o ",elements:["
                \o JsonElements(acc.elements) \o "],parameters:"
                \o ToString(parameters.max_coin_value) \o "}"
    IN  Blob(text, Len(text))

\* the loop of create_membership_proof: one ProofNode per element
MembershipPath(acc, element_index) ==
    [ i \in 1..Len(acc.elements) |->
        [ value |-> acc.elements[i].value, is_left |-> (i - 1) <= element_index ] ]

\* create_membership_proof whose bound check lets element_count itself through
create_membership_proof_inclusive(acc, element_index) ==
    IF element_index > Len(acc.elements) THEN Err("InvalidParameter")
    ELSE Ok([ element_index |-> element_index,
              path |-> MembershipPath(acc, element_index),
              accumulator_value |-> acc.value ])

create_membership_proof(acc, element_index) ==
    IF element_index >= Len(acc.elements) THEN Err("InvalidParameter")
    ELSE Ok([ element_index |-> element_index,
              path |-> MembershipPath(acc, element_index),
              accumulator_value |-> acc.value ])

\* the replay loop of verify_membership_proof, started from accumulator_base
RECURSIVE ReplayPath(_, _)
ReplayPath(current_value, path) ==
    IF path = <<>> THEN current_value
    ELSE ReplayPath(Sha512Hex(Cat(current_value, Head(path).value)), Tail(path))

\* verify_membership_proof that compares with the live value
verify_membership_proof_live(acc, p) ==
    IF p.element_index >= Len(acc.elements) THEN Ok(FALSE)
    ELSE Ok(acc.value = p.accumulator_value)

\* verify_membership_proof that reports an out-of-range index as an error
verify_membership_proof_strict(acc, p) ==
    IF p.element_index >= Len(acc.elements) THEN Err("InvalidParameter")
    ELSE Ok(ReplayPath(parameters.accumulator_base, p.path) = p.accumulator_value)

verify_membership_proof(acc, p) ==
    IF p.element_index >= Len(acc.elements) THEN Ok(FALSE)
    ELSE Ok(ReplayPath(parameters.accumulator_base, p.path) = p.accumulator_value)

(***************************************************************************)
(* Witness (witness.rs)                                                    *)
(***************************************************************************)
\* result |= a[i] ^ b[i] over all bytes; result == 0
constant_time_compare(a, b) ==
    IF Len(a) # Len(b) THEN FALSE
    ELSE \A i \in 1..Len(a) : a[i] = b[i]

witness_verify(w) ==
    IF is_empty(w.commitment.value) THEN Err("InvalidWitness")
    ELSE IF is_empty(w.accumulator_value) THEN Err("InvalidWitness")
    ELSE IF is_empty(w.membership_proof) THEN Err("InvalidWitness")
    ELSE Ok(TRUE)

\* the amounts a plaintext block can hold in the model
PlainAmounts == 0..(MaxCoinValue + 1)

GCM_TAG_LEN == 16

AesGcmSeal(key, nonce, plaintext) ==
    Blob("gcm(" \o key.id \o ";" \o nonce.id \o ";" \o plaintext.id \o ")",
         plaintext.len + GCM_TAG_LEN)

\* cipher.decrypt(nonce, ciphertext): the plaintext when the ciphertext was
\* sealed under this key and nonce, an error otherwise
AesGcmDecrypt(key, nonce, ciphertext) ==
    LET fits == { a \in PlainAmounts :
                    ToBytes(AesGcmSeal(key, nonce, to_le_bytes(a))) = ciphertext }
    IN  IF fits = {} THEN Err("aead::Error")
        ELSE Ok(ToBytes(to_le_bytes(CHOOSE a \in fits : TRUE)))

u64_from_le_bytes(bytes) ==
    CHOOSE a \in PlainAmounts : ToBytes(to_le_bytes(a)) = bytes

\* HKDF-style derivation of get_amount: prk, decryption key, HMAC key
WitnessPrk(w) == HmacSha512(w.commitment.randomness, w.commitment.value)

DecryptionKey(w, metadata) ==
    HmacSha512(WitnessPrk(w),
               CatAll(<<Blob("lelantus_amount_decryption_key", 30),
                        to_le_bytes(w.index), metadata>>))

HmacKey(w) ==
    HmacSha512(WitnessPrk(w),
               Cat(Blob("lelantus_hmac_verification_key", 30), to_le_bytes(w.index)))

ComputedTag(w, encrypted_amount, metadata) ==
    HmacSha512(HmacKey(w),
               CatAll(<<BlobOf(encrypted_amount), to_le_bytes(w.index), metadata>>))

\* get_amount after the tag was accepted: AES-256-GCM decryption of
\* encrypted_amount as [12-byte nonce][ciphertext], then the zero check;
\* decrypt_attempted records whether cipher.decrypt was called
get_amount_decrypt(encrypted_amount, decryption_key) ==
    LET aes_key == BlobOf(SubSeq(ToBytes(decryption_key), 1, 32))
    IN  IF Len(encrypted_amount) < 12 + 8
        THEN [ret |-> Err("InvalidWitness"), decrypt_attempted |-> FALSE]
        ELSE
        LET nonce == BlobOf(SubSeq(encrypted_amount, 1, 12))
            ciphertext == SubSeq(encrypted_amount, 13, Len(encrypted_amount))
            decrypted == AesGcmDecrypt(aes_key, nonce, ciphertext)
        IN  [ decrypt_attempted |-> TRUE,
              ret |-> IF ~decrypted.ok THEN Err("InvalidWitness")
                      ELSE IF Len(decrypted.val) < 8 THEN Err("InvalidWitness")
                      ELSE LET amount == u64_from_le_bytes(SubSeq(decrypted.val, 1, 8))
                           IN  IF amount = 0 THEN Err("InvalidWitness")
                               ELSE Ok(amount) ]

\* get_amount that reports a short payload as a parameter error
get_amount_run_short_parameter(w) ==
    IF Len(w.encrypted_value) < 40
    THEN [ret |-> Err("InvalidParameter"), decrypt_attempted |-> FALSE]
    ELSE
    LET encrypted_amount == SubSeq(w.encrypted_value, 1, 8)
        tag == SubSeq(w.encrypted_value, 9, 40)
        metadata == IF Len(w.encrypted_value) > 40
                    THEN BlobOf(SubSeq(w.encrypted_value, 41, Len(w.encrypted_value)))
                    ELSE EmptyBlob
    IN  IF ~constant_time_compare(tag, ToBytes(ComputedTag(w, encrypted_amount, metadata)))
        THEN [ret |-> Err("InvalidWitness"), decrypt_attempted |-> FALSE]
        ELSE get_amount_decrypt(encrypted_amount, DecryptionKey(w, metadata))

\* one run of get_amount: what it returns and whether it got to decrypting
get_amount_run(w) ==
    IF Len(w.encrypted_value) < 40
    THEN [ret |-> Err("InvalidWitness"), decrypt_attempted |-> FALSE]
    ELSE
    LET encrypted_amount == SubSeq(w.encrypted_value, 1, 8)
        tag == SubSeq(w.encrypted_value, 9, 40)
        metadata == IF Len(w.encrypted_value) > 40
                    THEN BlobOf(SubSeq(w.encrypted_value, 41, Len(w.encrypted_value)))
                    ELSE EmptyBlob
        decryption_key == DecryptionKey(w, metadata)
        computed_tag == ComputedTag(w, encrypted_amount, metadata)
    IN  IF ~constant_time_compare(tag, ToBytes(computed_tag))
        THEN [ret |-> Err("InvalidWitness"), decrypt_attempted |-> FALSE]
        ELSE get_amount_decrypt(encrypted_amount, decryption_key)

get_amount(w) == get_amount_run(w).ret

(***************************************************************************)
(* RangeProof and ZKProof (proof.rs)                                       *)
(***************************************************************************)
range_proof_create(commitment) ==
    [ proof_data |-> Blake3(Cat(commitment.value,
                                to_le_bytes(parameters.range_proof_bits))),
      commitment |-> commitment.value,
      bit_length |-> parameters.range_proof_bits ]

range_proof_verify(rp) ==
    Ok(rp.proof_data = Blake3(Cat(rp.commitment, to_le_bytes(rp.bit_length))))

CommitmentValues(cs) == CatAll([i \in 1..Len(cs) |-> cs[i].value])

zk_proof_create(inputs, outputs, fee) ==
    LET challenge ==
            Blake3(CatAll(<<CommitmentValues([i \in 1..Len(inputs) |->
                                                inputs[i].commitment]),
                            CommitmentValues(outputs),
                            to_le_bytes(fee)>>))
        response ==
            Blake3(Cat(challenge,
                       CatAll([i \in 1..Len(inputs) |->
                                 inputs[i].witness.commitment.randomness])))
    IN  [ proof_data |-> Blake3(Cat(challenge, response)),
          challenge |-> challenge,
          response |-> response ]

\* ZKProof::verify that skips the challenge comparison
zk_proof_verify_unbound(zk, inputs, outputs, accumulator_value) ==
    Ok(zk.proof_data = Blake3(Cat(zk.challenge, zk.response)))

zk_proof_verify(zk, inputs, outputs, accumulator_value) ==
    LET expected_challenge ==
            Blake3(CatAll(<<CommitmentValues(inputs), CommitmentValues(outputs),
                            accumulator_value>>))
    IN  IF zk.challenge # expected_challenge THEN Ok(FALSE)
        ELSE Ok(zk.proof_data = Blake3(Cat(zk.challenge, zk.response)))

(***************************************************************************)
(* LelantusState (lib.rs)                                                  *)
(***************************************************************************)
MAX_JOINSPLIT_INPUTS == 16

MAX_JOINSPLIT_OUTPUTS == 2

MAX_FEE == 1000000

\* const MAX_COIN_VALUE: u64 = u64::MAX / 2
MAX_COIN_VALUE == U64_MAX \div 2

CACHE_CAPACITY == 1000

\* the input loop of create_joinsplit from input i on; commit() draws fresh
\* randomness for every input, so the loop has a set of possible outcomes:
\* Ok(input_sum) or the error it returns
RECURSIVE InputLoop(_, _, _)
InputLoop(inputs, i, input_sum) ==
    IF i > Len(inputs) THEN { Ok(input_sum) }
    ELSE
    LET commitment == inputs[i].commitment
        witness == inputs[i].witness
    IN  IF ~witness_verify(witness).ok THEN { Err("InvalidWitness") }
        ELSE
        LET amount == get_amount(witness)
        IN  IF ~amount.ok THEN { Err("InvalidWitness") }
            ELSE UNION {
              LET expected_commitment == commit(amount.val, rnd)
              IN  IF ~expected_commitment.ok THEN { Err("InvalidWitness") }
                  ELSE IF commitment_serialize(expected_commitment.val)
                          # commitment_serialize(commitment)
                       THEN { Err("InvalidWitness") }
                  ELSE IF amount.val = 0 THEN { Err("BalanceMismatch") }
                  ELSE IF amount.val > MAX_COIN_VALUE THEN { Err("BalanceMismatch") }
                  ELSE LET sum == checked_add(input_sum, amount.val)
                       IN  IF ~sum.some THEN { Err("BalanceMismatch") }
                           ELSE InputLoop(inputs, i + 1, sum.val)
              : rnd \in RandomBytes(parameters.randomness_bits \div 8) }

\* the output loop: Ok(output_sum) or BalanceMismatch
RECURSIVE OutputLoop(_, _, _)
OutputLoop(outputs, i, output_sum) ==
    IF i > Len(outputs) THEN Ok(output_sum)
    ELSE IF outputs[i] = 0 THEN Err("BalanceMismatch")
    ELSE LET sum == checked_add(output_sum, outputs[i])
         IN  IF ~sum.some THEN Err("BalanceMismatch")
             ELSE OutputLoop(outputs, i + 1, sum.val)

generate_joinsplit_proof(inputs, outputs, fee) ==
    [ range_proofs |-> [i \in 1..Len(outputs) |-> range_proof_create(outputs[i])],
      zk_proof |-> zk_proof_create(inputs, outputs, fee) ]

\* the tail of create_joinsplit once the balance holds: output commitments
\* (one randomness draw each), proof, JoinSplit
BuildJoinSplit(inputs, outputs, fee) ==
    { LET made == [i \in 1..Len(outputs) |-> commit(outputs[i], rnds[i])]
      IN  IF \E i \in 1..Len(outputs) : ~made[i].ok
          THEN Err("InvalidCommitment")
          ELSE LET output_commitments == [i \in 1..Len(outputs) |-> made[i].val]
               IN  Ok([ inputs |-> [i \in 1..Len(inputs) |-> inputs[i].commitment],
                        outputs |-> output_commitments,
                        proof |-> generate_joinsplit_proof(inputs,
                                                           output_commitments, fee),
                        fee |-> fee ])
      : rnds \in [1..Len(outputs) -> RandomBytes(parameters.randomness_bits \div 8)] }

\* count checks with the input bound off by one
CheckCountsOffByOne(inputs, outputs) ==
    IF Len(inputs) = 0 \/ Len(inputs) >= MAX_JOINSPLIT_INPUTS
    THEN Err("InvalidInputCount")
    ELSE IF Len(outputs) = 0 \/ Len(outputs) > MAX_JOINSPLIT_OUTPUTS
    THEN Err("InvalidOutputCount")
    ELSE Ok(TRUE)

\* the two count checks that open create_joinsplit
CheckCounts(inputs, outputs) ==
    IF Len(inputs) = 0 \/ Len(inputs) > MAX_JOINSPLIT_INPUTS
    THEN Err("InvalidInputCount")
    ELSE IF Len(outputs) = 0 \/ Len(outputs) > MAX_JOINSPLIT_OUTPUTS
    THEN Err("InvalidOutputCount")
    ELSE Ok(TRUE)

\* the set of results create_joinsplit can return for these arguments
create_joinsplit(inputs, outputs, fee) ==
    LET counts == CheckCounts(inputs, outputs)
    IN
    IF ~counts.ok THEN { counts }
    ELSE UNION {
      IF ~in.ok THEN { in }
      ELSE LET out == OutputLoop(outputs, 1, 0)
           IN  IF ~out.ok THEN { out }
               ELSE IF fee > MAX_FEE THEN { Err("BalanceMismatch") }
               ELSE LET expected_output_sum == checked_add(out.val, fee)
                    IN  IF ~expected_output_sum.some THEN { Err("BalanceMismatch") }
                        ELSE IF in.val # expected_output_sum.val
                             THEN { Err("BalanceMismatch") }
                        ELSE BuildJoinSplit(inputs, outputs, fee)
      : in \in InputLoop(inputs, 1, 0) }

\* verify_joinsplit that looks at the first range proof only
verify_joinsplit_first_only(acc, joinsplit) ==
    IF /\ Len(joinsplit.proof.range_proofs) > 0
       /\ ~range_proof_verify(joinsplit.proof.range_proofs[1]).val
    THEN Ok(FALSE)
    ELSE zk_proof_verify(joinsplit.proof.zk_proof, joinsplit.inputs,
                         joinsplit.outputs, accumulator_serialize(acc))

verify_joinsplit(acc, joinsplit) ==
    IF \E i \in 1..Len(joinsplit.proof.range_proofs) :
          ~range_proof_verify(joinsplit.proof.range_proofs[i]).val
    THEN Ok(FALSE)
    ELSE zk_proof_verify(joinsplit.proof.zk_proof, joinsplit.inputs,
                         joinsplit.outputs, accumulator_serialize(acc))

\* lru::LruCache, most recently used entry first
CacheIndex(cache, key) ==
    IF \E i \in 1..Len(cache) : cache[i].key = key
    THEN CHOOSE i \in 1..Len(cache) : cache[i].key = key
    ELSE 0

CacheRemoveAt(cache, i) == SubSeq(cache, 1, i - 1) \o SubSeq(cache, i + 1, Len(cache))

\* a put that makes room by dropping the newest entry
cache_put_evict_newest(cache, key, witness) ==
    LET i == CacheIndex(cache, key)
        entry == [key |-> key, witness |-> witness]
    IN  IF i > 0 THEN <<entry>> \o CacheRemoveAt(cache, i)
        ELSE IF Len(cache) = CACHE_CAPACITY
             THEN <<entry>> \o SubSeq(cache, 2, Len(cache))
        ELSE <<entry>> \o cache

cache_put(cache, key, witness) ==
    LET i == CacheIndex(cache, key)
        entry == [key |-> key, witness |-> witness]
    IN  IF i > 0 THEN <<entry>> \o CacheRemoveAt(cache, i)
        ELSE IF Len(cache) = CACHE_CAPACITY
             THEN <<entry>> \o SubSeq(cache, 1, Len(cache) - 1)
        ELSE <<entry>> \o cache

cache_get(cache, key) ==
    LET i == CacheIndex(cache, key)
    IN  IF i = 0 THEN [cache |-> cache, found |-> None]
        ELSE [cache |-> <<cache[i]>> \o CacheRemoveAt(cache, i),
              found |-> Some(cache[i].witness)]

(***************************************************************************)
(* Caller-side data: coins, witnesses and transactions handed to the API   *)
(***************************************************************************)
Randomness == RandomBytes(parameters.randomness_bits \div 8)

WitnessShell(c, index) ==
    [ commitment |-> c, index |-> index,
      accumulator_value |-> Blob("snapshot", SHA512_HEX_LEN),
      membership_proof |-> Blob("membership", 1),
      encrypted_value |-> <<>> ]

\* payload in the format get_amount documents:
\* [8 bytes encrypted amount][32 bytes HMAC-SHA512 tag][metadata]
Payload8(c, index, amount, metadata) ==
    LET w == WitnessShell(c, index)
        encrypted_amount ==
            ToBytes(Blob("enc(" \o DecryptionKey(w, metadata).id \o ";"
                         \o ToString(amount) \o ")", 8))
        tag == SubSeq(ToBytes(ComputedTag(w, encrypted_amount, metadata)), 1, 32)
    IN  encrypted_amount \o tag \o ToBytes(metadata)

\* payload in the wire layout: [nonce || AES-GCM ciphertext][32-byte tag][metadata]
PayloadGcm(c, index, amount, metadata) ==
    LET w == WitnessShell(c, index)
        aes_key == BlobOf(SubSeq(ToBytes(DecryptionKey(w, metadata)), 1, 32))
        nonce == Blob("nonce", 12)
        block == ToBytes(nonce) \o ToBytes(AesGcmSeal(aes_key, nonce, to_le_bytes(amount)))
        tag == SubSeq(ToBytes(ComputedTag(w, block, metadata)), 1, 32)
    IN  block \o tag \o ToBytes(metadata)

FlipByte(bytes, i) == [bytes EXCEPT ![i] = <<"flipped", i>>]

Layouts == { "amount8", "gcm", "flipped_tag", "short", "no_membership" }

MakeWitness(c, index, amount, layout) ==
    LET w == WitnessShell(c, index)
    IN  CASE layout = "amount8" ->
               [w EXCEPT !.encrypted_value = Payload8(c, index, amount, EmptyBlob)]
          [] layout = "gcm" ->
               [w EXCEPT !.encrypted_value = PayloadGcm(c, index, amount, EmptyBlob)]
          [] layout = "flipped_tag" ->
               [w EXCEPT !.encrypted_value =
                            FlipByte(Payload8(c, index, amount, EmptyBlob), 9)]
          [] layout = "short" ->
               [w EXCEPT !.encrypted_value =
                            SubSeq(Payload8(c, index, amount, EmptyBlob), 1, 39)]
          [] layout = "no_membership" ->
               [w EXCEPT !.encrypted_value = Payload8(c, index, amount, EmptyBlob),
                         !.membership_proof = EmptyBlob]
          [] layout = "amount8_metadata" ->
               [w EXCEPT !.encrypted_value =
                            Payload8(c, index, amount, Blob("metadata", 4))]
          [] layout = "gcm_metadata" ->
               [w EXCEPT !.encrypted_value =
                            PayloadGcm(c, index, amount, Blob("metadata", 4))]
          [] layout = "gcm_flipped_tag" ->
               [w EXCEPT !.encrypted_value =
                            FlipByte(PayloadGcm(c, index, amount, EmptyBlob), 37)]
          [] layout = "gcm_flipped_ciphertext" ->
               [w EXCEPT !.encrypted_value =
                            FlipByte(PayloadGcm(c, index, amount, EmptyBlob), 13)]

\* a coin of `amount` committed under randomness rnd, with its witness; the
\* amount field records what the payload wraps
Coin(amount, rnd, layout) ==
    LET made == commit(amount, rnd)
        c == IF made.ok THEN made.val
             ELSE commit(parameters.min_coin_value, rnd).val
    IN  [ commitment |-> c, witness |-> MakeWitness(c, 0, amount, layout),
          amount |-> amount ]

\* a transaction a caller assembles from public data: range proofs of the
\* chosen kind and a ZKProof whose challenge folds `tail`
AssembledJoinSplit(inputs, outputs, fee, tail, range_kind) ==
    LET challenge == Blake3(CatAll(<<CommitmentValues(inputs),
                                     CommitmentValues(outputs), tail>>))
        response == Blake3(Cat(challenge, Blob("any", 1)))
    IN  [ inputs |-> inputs, outputs |-> outputs, fee |-> fee,
          proof |->
            [ range_proofs |->
                CASE range_kind = "valid" ->
                       [i \in 1..Len(outputs) |-> range_proof_create(outputs[i])]
                  [] range_kind = "none" -> <<>>
                  [] range_kind = "bad" ->
                       [i \in 1..Len(outputs) |->
                          [range_proof_create(outputs[i])
                             EXCEPT !.proof_data = Blob("junk", BLAKE3_LEN)]]
                  [] range_kind = "last_bad" ->
                       [i \in 1..Len(outputs) |->
                          IF i < Len(outputs) THEN range_proof_create(outputs[i])
                          ELSE [range_proof_create(outputs[i])
                                  EXCEPT !.proof_data = Blob("junk", BLAKE3_LEN)]],
              zk_proof |-> [ proof_data |-> Blake3(Cat(challenge, response)),
                             challenge |-> challenge,
                             response |-> response ] ] ]

(***************************************************************************)
(* Spec: the state orchestrator and its accumulator, one call per step     *)
(***************************************************************************)
MaxElements == 3

SpendableCoins ==
    { Coin(amount, Draw(1, parameters.randomness_bits \div 8), "amount8") :
        amount \in {1, 2} }

CacheKeys == { Blob("k1", 2), Blob("k2", 2) }

Init ==
    /\ accumulator = accumulator_new.val
    /\ witness_cache = <<>>
    /\ proof = None
    /\ adds = 0
    /\ args = None
    /\ result = [op |-> "new"]
    /\ lock = Unlocked
    /\ pc = NoThreads
    /\ hist = NoHistory

AddCoin ==
    \E coin \in SpendableCoins :
        /\ element_count(accumulator) < MaxElements
        /\ accumulator' = add_element(accumulator, to_element(coin.commitment))
        /\ adds' = adds + 1
        /\ result' = [op |-> "add_coin", ret |-> Ok(TRUE)]
        /\ UNCHANGED <<witness_cache, proof, args, lock, pc, hist>>

GetAccumulator ==
    /\ result' = [op |-> "get_accumulator",
                  ret |-> Ok(accumulator_serialize(accumulator))]
    /\ UNCHANGED <<accumulator, witness_cache, proof, adds, args, lock, pc, hist>>

\* create_joinsplit that stores the witnesses it was handed in the cache
CreateJoinsplitCaching ==
    \E coin \in SpendableCoins, n \in {0, 1, MAX_JOINSPLIT_INPUTS + 1} :
      \E ret \in create_joinsplit([i \in 1..n |-> coin], <<coin.amount>>, 0) :
        /\ result' = [op |-> "create_joinsplit", ret |-> ret]
        /\ witness_cache' = cache_put(witness_cache, commitment_serialize(coin.commitment),
                                      coin.witness)
        /\ UNCHANGED <<accumulator, proof, adds, args, lock, pc, hist>>

CreateJoinsplit ==
    \E coin \in SpendableCoins, n \in {0, 1, MAX_JOINSPLIT_INPUTS + 1} :
      \E ret \in create_joinsplit([i \in 1..n |-> coin], <<coin.amount>>, 0) :
        /\ result' = [op |-> "create_joinsplit", ret |-> ret]
        /\ UNCHANGED <<accumulator, witness_cache, proof, adds, args, lock, pc, hist>>

\* the transactions offered to verify_joinsplit: `range` is the kind of range
\* proofs, `tail` what the ZKProof's challenge folds after the commitments
\* (the fee, as ZKProof::create does, or the serialized accumulator);
\* range = "created" is the proof generate_joinsplit_proof builds
OfferedFees == {0, 1}

OfferedKinds ==
    [ range : {"valid", "none", "bad", "last_bad"}, tail : {"fee", "snapshot"},
      fee : {0} ]
    \cup [ range : {"created"}, tail : {"fee"}, fee : OfferedFees ]

OfferedJoinSplit(acc, kind) ==
    LET c == commit(1, Draw(1, parameters.randomness_bits \div 8)).val
        out == commit(2, Draw(1, parameters.randomness_bits \div 8)).val
        inputs == <<c>>
        outputs == <<c, out>>
    IN  IF kind.range = "created"
        THEN [ inputs |-> inputs, outputs |-> outputs, fee |-> kind.fee,
               proof |-> generate_joinsplit_proof(
                            <<[commitment |-> c, witness |-> WitnessShell(c, 0)]>>,
                            outputs, kind.fee) ]
        ELSE AssembledJoinSplit(inputs, outputs, kind.fee,
                                IF kind.tail = "fee" THEN to_le_bytes(kind.fee)
                                ELSE accumulator_serialize(acc),
                                kind.range)

VerifyJoinsplit ==
    \E kind \in OfferedKinds :
        /\ result' =
             [op |-> "verify_joinsplit", joinsplit |-> kind,
              ret |-> verify_joinsplit(accumulator,
                                       OfferedJoinSplit(accumulator, kind))]
        /\ UNCHANGED <<accumulator, witness_cache, proof, adds, args, lock, pc, hist>>

CacheWitness ==
    \E key \in CacheKeys,
       coin \in { Coin(1, Draw(1, parameters.randomness_bits \div 8), "amount8") } :
        /\ witness_cache' = cache_put(witness_cache, key, coin.witness)
        /\ result' = [op |-> "cache_witness", ret |-> Ok(TRUE)]
        /\ UNCHANGED <<accumulator, proof, adds, args, lock, pc, hist>>

GetCachedWitness ==
    \E key \in CacheKeys :
        LET got == cache_get(witness_cache, key)
        IN  /\ witness_cache' = got.cache
            /\ result' = [op |-> "get_cached_witness", ret |-> got.found]
            /\ UNCHANGED <<accumulator, proof, adds, args, lock, pc, hist>>

\* create_membership_proof on the accumulator; the caller keeps the proof,
\* remembering how many elements the accumulator held when it was made
CreateMembershipProof ==
    \E index \in 0..MaxElements :
        LET made == create_membership_proof(accumulator, index)
        IN  /\ result' = [op |-> "create_membership_proof", index |-> index,
                          ret |-> made]
            /\ proof' = IF made.ok
                        THEN Some([p |-> made.val, n |-> element_count(accumulator)])
                        ELSE proof
            /\ UNCHANGED <<accumulator, witness_cache, adds, args, lock, pc, hist>>

\* verify_membership_proof of the proof the caller holds
VerifyMembershipProof ==
    /\ proof.some
    /\ result' = [op |-> "verify_membership_proof",
                  ret |-> verify_membership_proof(accumulator, proof.val.p)]
    /\ UNCHANGED <<accumulator, witness_cache, proof, adds, args, lock, pc, hist>>

Next ==
    \/ AddCoin
    \/ GetAccumulator
    \/ CreateJoinsplit
    \/ VerifyJoinsplit
    \/ CacheWitness
    \/ GetCachedWitness
    \/ CreateMembershipProof
    \/ VerifyMembershipProof

Spec == Init /\ [][Next]_vars

(***************************************************************************)
(* SpecCommit: one CommitmentScheme call sequence per behaviour; the       *)
(* arguments are drawn in the initial state                                *)
(***************************************************************************)
CommitValues == 0..(MaxCoinValue + 1)

WrongLengthRandomness == Blob("r1", parameters.randomness_bits \div 8 - 1)

CommitArgs ==
    [ value : CommitValues, randomness : Randomness \cup {WrongLengthRandomness} ]

InitCommit ==
    /\ accumulator = accumulator_new.val
    /\ witness_cache = <<>>
    /\ proof = None
    /\ adds = 0
    /\ args \in CommitArgs
    /\ result = [op |-> "none"]
    /\ lock = Unlocked
    /\ pc = NoThreads
    /\ hist = NoHistory

CallCommit ==
    /\ result.op = "none"
    /\ \E rnd \in Randomness :
         result' = [op |-> "commit", ret |-> commit(args.value, rnd)]
    /\ UNCHANGED <<accumulator, witness_cache, proof, adds, args, lock, pc, hist>>

CallCommitWithRandomness ==
    /\ result.op = "none"
    /\ result' = [op |-> "commit_with_randomness",
                  ret |-> commit_with_randomness(args.value, args.randomness)]
    /\ UNCHANGED <<accumulator, witness_cache, proof, adds, args, lock, pc, hist>>

\* verify(&commitment, value) on the commitment that commit(args.value) returned
CallVerify ==
    /\ result.op = "commit"
    /\ result.ret.ok
    /\ \E value \in CommitValues :
         result' = [op |-> "verify", commitment |-> result.ret.val, value |-> value,
                    ret |-> commitment_verify(result.ret.val, value)]
    /\ UNCHANGED <<accumulator, witness_cache, proof, adds, args, lock, pc, hist>>

NextCommit == CallCommit \/ CallCommitWithRandomness \/ CallVerify

SpecCommit == InitCommit /\ [][NextCommit]_vars

(***************************************************************************)
(* SpecJS: one create_joinsplit call per behaviour; the arguments are      *)
(* drawn in the initial state                                              *)
(***************************************************************************)
MaxInputAmount == 2

OutputAmounts == {0, 1, 2}

JSOutputs ==
    UNION { [1..m -> OutputAmounts] : m \in 0..(MAX_JOINSPLIT_OUTPUTS + 1) }

JSFees == {0, 1, MAX_FEE, MAX_FEE + 1}

\* the call's arguments: n copies of the coin (amount, draw-th randomness,
\* layout), the output amounts and the fee
JSArgs ==
    [ n : 0..(MAX_JOINSPLIT_INPUTS + 1), amount : 1..MaxInputAmount,
      draw : 1..NumRandom, layout : Layouts, outputs : JSOutputs, fee : JSFees ]

JSInputs(a) ==
    LET coin == Coin(a.amount, Draw(a.draw, parameters.randomness_bits \div 8), a.layout)
    IN  [ i \in 1..a.n |-> coin ]

InitJS ==
    /\ accumulator = accumulator_new.val
    /\ witness_cache = <<>>
    /\ proof = None
    /\ adds = 0
    /\ args \in JSArgs
    /\ result = [op |-> "none"]
    /\ lock = Unlocked
    /\ pc = NoThreads
    /\ hist = NoHistory

CallCreateJoinsplit ==
    /\ result.op = "none"
    /\ \E ret \in create_joinsplit(JSInputs(args), args.outputs, args.fee) :
         result' = [op |-> "create_joinsplit", ret |-> ret]
    /\ UNCHANGED <<accumulator, witness_cache, proof, adds, args, lock, pc, hist>>

NextJS == CallCreateJoinsplit

SpecJS == InitJS /\ [][NextJS]_vars

(***************************************************************************)
(* SpecJSEdge: create_joinsplit on inputs whose witnesses wrap the amounts *)
(* at the edges of the u64 range                                           *)
(***************************************************************************)
EdgeAmounts == {0, 1, MAX_COIN_VALUE, MAX_COIN_VALUE + 1, U64_MAX}

JSEdgeArgs ==
    [ n : 1..3, amount : EdgeAmounts, draw : {1}, layout : {"amount8", "gcm"},
      outputs : {<<1>>, <<1, 1>>}, fee : {0, 1} ]

InitJSEdge ==
    /\ accumulator = accumulator_new.val
    /\ witness_cache = <<>>
    /\ proof = None
    /\ adds = 0
    /\ args \in JSEdgeArgs
    /\ result = [op |-> "none"]
    /\ lock = Unlocked
    /\ pc = NoThreads
    /\ hist = NoHistory

SpecJSEdge == InitJSEdge /\ [][NextJS]_vars

(***************************************************************************)
(* SpecProof: one verify_membership_proof call per behaviour, on an        *)
(* accumulator of n elements and a MembershipProof the caller hands in;    *)
(* both are drawn in the initial state                                     *)
(***************************************************************************)
\* the i-th coin added
ElementAt(i) ==
    to_element(commit(1 + (i % 2), Draw(1, parameters.randomness_bits \div 8)).val)

RECURSIVE AccumulatorOf(_)
AccumulatorOf(n) ==
    IF n = 0 THEN accumulator_new.val
    ELSE add_element(AccumulatorOf(n - 1), ElementAt(n))

\* the proof: its element_index, the length of its path (the first coins
\* added, or coins the accumulator never saw when the path is longer), its
\* is_left flags (as create_membership_proof sets them, or inverted) and its
\* accumulator_value (the live value, the replay of its own path from
\* accumulator_base, or unrelated bytes)
ProofArgs ==
    [ n : 0..MaxElements, index : 0..MaxElements, path_len : 0..MaxElements,
      flags : {"created", "inverted"}, value : {"live", "replayed", "junk"} ]

ProofOf(a) ==
    LET path == [ i \in 1..a.path_len |->
                    [ value |-> ElementAt(i).value,
                      is_left |-> ((i - 1) <= a.index) = (a.flags = "created") ] ]
    IN  [ element_index |-> a.index,
          path |-> path,
          accumulator_value |->
            CASE a.value = "live" -> AccumulatorOf(a.n).value
              [] a.value = "replayed" -> ReplayPath(parameters.accumulator_base, path)
              [] a.value = "junk" -> Blob("junk", SHA512_HEX_LEN) ]

InitProof ==
    /\ args \in ProofArgs
    /\ accumulator = AccumulatorOf(args.n)
    /\ witness_cache = <<>>
    /\ proof = None
    /\ adds = args.n
    /\ result = [op |-> "none"]
    /\ lock = Unlocked
    /\ pc = NoThreads
    /\ hist = NoHistory

CallVerifyMembershipProof ==
    /\ result.op = "none"
    /\ result' = [op |-> "verify_membership_proof",
                  ret |-> verify_membership_proof(accumulator, ProofOf(args))]
    /\ UNCHANGED <<accumulator, witness_cache, proof, adds, args, lock, pc, hist>>

NextProof == CallVerifyMembershipProof

SpecProof == InitProof /\ [][NextProof]_vars

(***************************************************************************)
(* SpecWitness: one Witness::get_amount call per behaviour; the witness is *)
(* drawn in the initial state                                              *)
(***************************************************************************)
WitnessLayouts ==
    Layouts \cup { "amount8_metadata", "gcm_metadata", "gcm_flipped_tag",
                   "gcm_flipped_ciphertext" }

\* the witness: the amount its payload wraps, the randomness draw of its
\* commitment, its index and the layout of encrypted_value
WitnessArgs ==
    [ wrapped : PlainAmounts, draw : 1..NumRandom, index : {0, 1},
      layout : WitnessLayouts ]

WitnessOf(a) ==
    MakeWitness(commit(parameters.min_coin_value,
                       Draw(a.draw, parameters.randomness_bits \div 8)).val,
                a.index, a.wrapped, a.layout)

InitWitness ==
    /\ accumulator = accumulator_new.val
    /\ witness_cache = <<>>
    /\ proof = None
    /\ adds = 0
    /\ args \in WitnessArgs
    /\ result = [op |-> "none"]
    /\ lock = Unlocked
    /\ pc = NoThreads
    /\ hist = NoHistory

CallGetAmount ==
    /\ result.op = "none"
    /\ LET run == get_amount_run(WitnessOf(args))
       IN  result' = [op |-> "get_amount", ret |-> run.ret,
                      decrypt_attempted |-> run.decrypt_attempted]
    /\ UNCHANGED <<accumulator, witness_cache, proof, adds, args, lock, pc, hist>>

NextWitness == CallGetAmount

SpecWitness == InitWitness /\ [][NextWitness]_vars

(***************************************************************************)
(* SpecCache: the witness cache filled to its capacity and beyond.         *)
(* cache_witness stores distinct keys one after the other; once the cache  *)
(* is one entry short of full, lookups and re-stores of a few of the keys  *)
(* are interleaved.  hist is the history of the calls: for every key the   *)
(* time of its last access and the version of the witness last stored.     *)
(***************************************************************************)
ExtraKeys == 2

MaxTouches == 1

MaxCacheKeys == CACHE_CAPACITY + ExtraKeys

\* the k-th key: a byte vector of length k
CacheKeyOf(k) == Blob("zeros", k)

\* the witnesses stored: one coin's witness, told apart by its index field
VersionedWitness(version) ==
    WitnessShell(commit(parameters.min_coin_value,
                        Draw(1, parameters.randomness_bits \div 8)).val, version)

ProbeKeys == {1, 2, 3}

CacheWarm == hist.next >= CACHE_CAPACITY - 1

InitCache ==
    /\ accumulator = accumulator_new.val
    /\ witness_cache = <<>>
    /\ proof = None
    /\ adds = 0
    /\ args = None
    /\ result = [op |-> "new"]
    /\ lock = Unlocked
    /\ pc = NoThreads
    /\ hist = [ next |-> 0, time |-> 0, touches |-> 0,
                access |-> [k \in 1..MaxCacheKeys |-> 0],
                stored |-> [k \in 1..MaxCacheKeys |-> 0] ]

\* cache_witness(key, witness) at time hist.time + 1
StoreWitness(k) ==
    LET now == hist.time + 1
    IN  /\ witness_cache' = cache_put(witness_cache, CacheKeyOf(k),
                                      VersionedWitness(now))
        /\ result' = [op |-> "cache_witness", key |-> k, ret |-> Ok(TRUE)]
        /\ hist' = [hist EXCEPT !.time = now, !.access[k] = now, !.stored[k] = now,
                                !.next = IF k > hist.next THEN k ELSE hist.next,
                                !.touches = IF k > hist.next THEN hist.touches
                                            ELSE hist.touches + 1]
        /\ UNCHANGED <<accumulator, proof, adds, args, lock, pc>>

\* cache_witness of a key never stored before
CacheWitnessFresh ==
    /\ hist.next < MaxCacheKeys
    /\ StoreWitness(hist.next + 1)

\* cache_witness of a key stored before
CacheWitnessAgain ==
    /\ CacheWarm
    /\ hist.touches < MaxTouches
    /\ \E k \in ProbeKeys : hist.stored[k] > 0 /\ StoreWitness(k)

\* get_cached_witness(key); a hit is an access of the key
GetCachedWitnessAt ==
    /\ CacheWarm
    /\ hist.touches < MaxTouches
    /\ \E k \in ProbeKeys :
         LET got == cache_get(witness_cache, CacheKeyOf(k))
             now == hist.time + 1
         IN  /\ witness_cache' = got.cache
             /\ result' = [op |-> "get_cached_witness", key |-> k,
                           ret |-> got.found]
             /\ hist' = [hist EXCEPT !.time = now,
                                     !.touches = hist.touches + 1,
                                     !.access[k] = IF got.found.some THEN now
                                                   ELSE hist.access[k]]
             /\ UNCHANGED <<accumulator, proof, adds, args, lock, pc>>

NextCache == CacheWitnessFresh \/ CacheWitnessAgain \/ GetCachedWitnessAt

SpecCache == InitCache /\ [][NextCache]_vars

(***************************************************************************)
(* SpecLock: threads sharing one LelantusState call add_coin,              *)
(* get_accumulator and verify_joinsplit concurrently.  The accumulator     *)
(* sits behind a parking_lot::RwLock: write() first claims the writer bit  *)
(* (one writer at a time), then waits until the readers inside have left;  *)
(* read() enters while no writer has claimed the lock.  lock.writer is the *)
(* claiming thread, lock.exclusive tells that it is inside, lock.readers   *)
(* are the threads holding a read guard; pc[t].at is the place thread t    *)
(* has reached in its call.  What a call returns goes to its caller and   *)
(* is no part of the shared state.                                         *)
(***************************************************************************)
Threads == {"t1", "t2", "t3"}

\* lock_exclusive: the writer bit is free
can_claim_exclusive(l) == l.writer = ""

\* a write lock that does not wait for the readers inside
readers_drained_unchecked(l) == TRUE

\* wait_for_readers: no read guard is left
readers_drained(l) == l.readers = {}

\* a read lock that lets readers pass a writer waiting for the readers to leave
can_lock_shared_barging(l) == ~l.exclusive

\* a read lock that is granted whatever the state of the lock
can_lock_shared_unguarded(l) == TRUE

\* lock_shared: no writer holds or has claimed the lock
can_lock_shared(l) == l.writer = ""

LockCoin == to_element(commit(1, Draw(1, parameters.randomness_bits \div 8)).val)

LockKinds == { k \in OfferedKinds : k.tail = "fee" /\ k.range \in {"valid", "bad"} }

\* the transactions the threads offer; they fold the fee, not a snapshot, and
\* so are the same whatever the accumulator holds when they are assembled
LockJoinSplit ==
    [ valid |-> OfferedJoinSplit(accumulator_new.val,
                                 [range |-> "valid", tail |-> "fee", fee |-> 0]),
      bad |-> OfferedJoinSplit(accumulator_new.val,
                               [range |-> "bad", tail |-> "fee", fee |-> 0]) ]

At(t, place) == [pc EXCEPT ![t] = [at |-> place, arg |-> None]]

InitLock ==
    /\ accumulator = accumulator_new.val
    /\ witness_cache = <<>>
    /\ proof = None
    /\ adds = 0
    /\ args = None
    /\ result = [op |-> "new"]
    /\ lock = Unlocked
    /\ pc = [t \in Threads |-> [at |-> "idle", arg |-> None]]
    /\ hist = NoHistory

\* add_coin: adds counts the calls made
AddCoinCall(t) ==
    /\ pc[t].at = "idle"
    /\ adds < MaxElements
    /\ adds' = adds + 1
    /\ pc' = At(t, "add_coin:write")
    /\ UNCHANGED <<accumulator, witness_cache, proof, args, result, lock, hist>>

AddCoinWrite(t) ==
    /\ pc[t].at = "add_coin:write"
    /\ can_claim_exclusive(lock)
    /\ lock' = [lock EXCEPT !.writer = t]
    /\ pc' = At(t, "add_coin:wait_for_readers")
    /\ UNCHANGED <<accumulator, witness_cache, proof, adds, args, result, hist>>

AddCoinEnter(t) ==
    /\ pc[t].at = "add_coin:wait_for_readers"
    /\ readers_drained(lock)
    /\ lock' = [lock EXCEPT !.exclusive = TRUE]
    /\ pc' = At(t, "add_coin:add_element")
    /\ UNCHANGED <<accumulator, witness_cache, proof, adds, args, result, hist>>

\* add_element under the write guard: self.value is assigned first ...
AddCoinAddElement(t) ==
    /\ pc[t].at = "add_coin:add_element"
    /\ accumulator' = [accumulator EXCEPT
                          !.value = add_element(accumulator, LockCoin).value]
    /\ pc' = At(t, "add_coin:push")
    /\ UNCHANGED <<witness_cache, proof, adds, args, result, lock, hist>>

\* ... and self.elements.push(element) follows
AddCoinPush(t) ==
    /\ pc[t].at = "add_coin:push"
    /\ accumulator' = [accumulator EXCEPT
                          !.elements = add_element(accumulator, LockCoin).elements]
    /\ pc' = At(t, "add_coin:return")
    /\ UNCHANGED <<witness_cache, proof, adds, args, result, lock, hist>>

\* the write guard is dropped when add_coin returns
AddCoinReturn(t) ==
    /\ pc[t].at = "add_coin:return"
    /\ lock' = [lock EXCEPT !.writer = "", !.exclusive = FALSE]
    /\ pc' = At(t, "idle")
    /\ UNCHANGED <<accumulator, witness_cache, proof, adds, args, result, hist>>

GetAccumulatorCall(t) ==
    /\ pc[t].at = "idle"
    /\ pc' = At(t, "get_accumulator:read")
    /\ UNCHANGED <<accumulator, witness_cache, proof, adds, args, result, lock, hist>>

GetAccumulatorRead(t) ==
    /\ pc[t].at = "get_accumulator:read"
    /\ can_lock_shared(lock)
    /\ lock' = [lock EXCEPT !.readers = @ \cup {t}]
    /\ pc' = At(t, "get_accumulator:serialize")
    /\ UNCHANGED <<accumulator, witness_cache, proof, adds, args, result, hist>>

\* serialize under the read guard, which is dropped at the return: the
\* caller is handed accumulator_serialize of the accumulator as it is now
GetAccumulatorReturn(t) ==
    /\ pc[t].at = "get_accumulator:serialize"
    /\ lock' = [lock EXCEPT !.readers = @ \ {t}]
    /\ pc' = At(t, "idle")
    /\ UNCHANGED <<accumulator, witness_cache, proof, adds, args, result, hist>>

VerifyJoinsplitCall(t) ==
    /\ pc[t].at = "idle"
    /\ \E kind \in LockKinds :
         pc' = [pc EXCEPT ![t] = [at |-> "verify_joinsplit:range_proofs",
                                  arg |-> Some(kind)]]
    /\ UNCHANGED <<accumulator, witness_cache, proof, adds, args, result, lock, hist>>

\* the range-proof loop runs before the lock is taken
VerifyJoinsplitRangeProofs(t) ==
    /\ pc[t].at = "verify_joinsplit:range_proofs"
    /\ LET joinsplit == LockJoinSplit[pc[t].arg.val.range]
       IN  IF \E i \in 1..Len(joinsplit.proof.range_proofs) :
                 ~range_proof_verify(joinsplit.proof.range_proofs[i]).val
           THEN pc' = At(t, "idle")
           ELSE pc' = [pc EXCEPT ![t].at = "verify_joinsplit:read"]
    /\ UNCHANGED <<accumulator, witness_cache, proof, adds, args, result, lock, hist>>

VerifyJoinsplitRead(t) ==
    /\ pc[t].at = "verify_joinsplit:read"
    /\ can_lock_shared(lock)
    /\ lock' = [lock EXCEPT !.readers = @ \cup {t}]
    /\ pc' = [pc EXCEPT ![t].at = "verify_joinsplit:zk_proof"]
    /\ UNCHANGED <<accumulator, witness_cache, proof, adds, args, result, hist>>

\* serialize and ZKProof::verify under the read guard, dropped at the return
VerifyJoinsplitReturn(t) ==
    /\ pc[t].at = "verify_joinsplit:zk_proof"
    /\ lock' = [lock EXCEPT !.readers = @ \ {t}]
    /\ pc' = At(t, "idle")
    /\ UNCHANGED <<accumulator, witness_cache, proof, adds, args, result, hist>>

NextLock ==
    \E t \in Threads :
        \/ AddCoinCall(t)
        \/ AddCoinWrite(t)
        \/ AddCoinEnter(t)
        \/ AddCoinAddElement(t)
        \/ AddCoinPush(t)
        \/ AddCoinReturn(t)
        \/ GetAccumulatorCall(t)
        \/ GetAccumulatorRead(t)
        \/ GetAccumulatorReturn(t)
        \/ VerifyJoinsplitCall(t)
        \/ VerifyJoinsplitRangeProofs(t)
        \/ VerifyJoinsplitRead(t)
        \/ VerifyJoinsplitReturn(t)

SpecLock == InitLock /\ [][NextLock]_vars

\* a thread that holds or has claimed the lock runs on (the calls are
\* CPU-bound and never block inside), and a writer that can claim the
\* writer bit for good does claim it; readers are promised nothing
LockFairness ==
    \A t \in Threads :
        /\ WF_vars(AddCoinWrite(t))
        /\ WF_vars(AddCoinEnter(t))
        /\ WF_vars(AddCoinAddElement(t))
        /\ WF_vars(AddCoinPush(t))
        /\ WF_vars(AddCoinReturn(t))
        /\ WF_vars(GetAccumulatorReturn(t))
        /\ WF_vars(VerifyJoinsplitReturn(t))

SpecLockFair == SpecLock /\ LockFairness

(***************************************************************************)
(* SpecOps: the threads call all six operations of LelantusState.  The     *)
(* witness cache sits behind a second parking_lot::RwLock on which every   *)
(* caller takes write(); lock.cache_writer is the thread holding it.       *)
(* create_joinsplit takes no lock and reads only its arguments and the     *)
(* immutable parameters, so what it returns is settled by the call.        *)
(***************************************************************************)
\* witness_cache.write(): nobody holds the cache lock
can_lock_cache(l) == l.cache_writer = ""

\* a cache guard that is leaked instead of dropped
cache_unlock_leaked(l) == l

\* the cache guard goes out of scope
cache_unlock(l) == [l EXCEPT !.cache_writer = ""]

OpsKey == CacheKeyOf(1)

OpsCoin == Coin(1, Draw(1, parameters.randomness_bits \div 8), "amount8")

CacheWitnessCall(t) ==
    /\ pc[t].at = "idle"
    /\ pc' = At(t, "cache_witness:write")
    /\ UNCHANGED <<accumulator, witness_cache, proof, adds, args, result, lock, hist>>

CacheWitnessWrite(t) ==
    /\ pc[t].at = "cache_witness:write"
    /\ can_lock_cache(lock)
    /\ lock' = [lock EXCEPT !.cache_writer = t]
    /\ pc' = At(t, "cache_witness:put")
    /\ UNCHANGED <<accumulator, witness_cache, proof, adds, args, result, hist>>

\* cache.put under the guard, which is dropped at the return
CacheWitnessReturn(t) ==
    /\ pc[t].at = "cache_witness:put"
    /\ witness_cache' = cache_put(witness_cache, OpsKey, OpsCoin.witness)
    /\ lock' = cache_unlock(lock)
    /\ pc' = At(t, "idle")
    /\ UNCHANGED <<accumulator, proof, adds, args, result, hist>>

GetCachedWitnessCall(t) ==
    /\ pc[t].at = "idle"
    /\ pc' = At(t, "get_cached_witness:write")
    /\ UNCHANGED <<accumulator, witness_cache, proof, adds, args, result, lock, hist>>

GetCachedWitnessWrite(t) ==
    /\ pc[t].at = "get_cached_witness:write"
    /\ can_lock_cache(lock)
    /\ lock' = [lock EXCEPT !.cache_writer = t]
    /\ pc' = At(t, "get_cached_witness:get")
    /\ UNCHANGED <<accumulator, witness_cache, proof, adds, args, result, hist>>

\* cache.get under the guard, which is dropped at the return
GetCachedWitnessReturn(t) ==
    /\ pc[t].at = "get_cached_witness:get"
    /\ witness_cache' = cache_get(witness_cache, OpsKey).cache
    /\ lock' = cache_unlock(lock)
    /\ pc' = At(t, "idle")
    /\ UNCHANGED <<accumulator, proof, adds, args, result, hist>>

CreateJoinsplitCall(t) ==
    /\ pc[t].at = "idle"
    /\ \E ret \in create_joinsplit(<<OpsCoin>>, <<OpsCoin.amount>>, 0) :
        pc' = [pc EXCEPT ![t] = [at |-> "create_joinsplit:return", arg |-> Some(ret)]]
    /\ UNCHANGED <<accumulator, witness_cache, proof, adds, args, result, lock, hist>>

CreateJoinsplitReturn(t) ==
    /\ pc[t].at = "create_joinsplit:return"
    /\ pc' = At(t, "idle")
    /\ UNCHANGED <<accumulator, witness_cache, proof, adds, args, result, lock, hist>>

NextOps ==
    \/ NextLock
    \/ \E t \in Threads :
          \/ CacheWitnessCall(t)
          \/ CacheWitnessWrite(t)
          \/ CacheWitnessReturn(t)
          \/ GetCachedWitnessCall(t)
          \/ GetCachedWitnessWrite(t)
          \/ GetCachedWitnessReturn(t)
          \/ CreateJoinsplitCall(t)
          \/ CreateJoinsplitReturn(t)

SpecOps == InitLock /\ [][NextOps]_vars

\* a thread asking for a lock
Acquire(t) ==
    \/ AddCoinWrite(t)
    \/ GetAccumulatorRead(t)
    \/ VerifyJoinsplitRead(t)
    \/ CacheWitnessWrite(t)
    \/ GetCachedWitnessWrite(t)

\* a thread running on without asking for a lock
Proceed(t) ==
    \/ AddCoinEnter(t)
    \/ AddCoinAddElement(t)
    \/ AddCoinPush(t)
    \/ AddCoinReturn(t)
    \/ GetAccumulatorReturn(t)
    \/ VerifyJoinsplitRangeProofs(t)
    \/ VerifyJoinsplitReturn(t)
    \/ CacheWitnessReturn(t)
    \/ GetCachedWitnessReturn(t)
    \/ CreateJoinsplitReturn(t)

\* the locks are fair (a thread that can be granted its lock again and again
\* is granted it) and a thread that can run on does
OpsFairness ==
    \A t \in Threads : SF_vars(Acquire(t)) /\ WF_vars(Proceed(t))

SpecOpsFair == SpecOps /\ OpsFairness

(***************************************************************************)
(* Properties                                                              *)
(***************************************************************************)
RECURSIVE SumSeq(_)
SumSeq(q) == IF q = <<>> THEN 0 ELSE Head(q) + SumSeq(Tail(q))

\* the arguments describe a spend the documentation calls valid: counts in
\* range, non-zero outputs, fee within the ceiling, witnesses that pass
\* Witness::verify and wrap the committed amount, and an exact balance
ValidSpend(a) ==
    /\ a.n \in 1..MAX_JOINSPLIT_INPUTS
    /\ Len(a.outputs) \in 1..MAX_JOINSPLIT_OUTPUTS
    /\ \A j \in 1..Len(a.outputs) : a.outputs[j] # 0
    /\ a.fee <= MAX_FEE
    /\ a.layout \in {"amount8", "gcm"}
    /\ \A i \in 1..a.n : witness_verify(JSInputs(a)[i].witness).ok
    /\ a.n * a.amount = SumSeq(a.outputs) + a.fee

\* the arguments are a valid spend with one output amount moved by 1
OneOutputOffByOne(a) ==
    \E j \in 1..Len(a.outputs), d \in {-1, 1} :
        /\ a.outputs[j] # 0
        /\ a.outputs[j] - d > 0
        /\ ValidSpend([a EXCEPT !.outputs[j] = @ - d])

\* C1: create_joinsplit returns Ok(JoinSplit) for every valid, balanced spend
C1_ValidSpendSucceeds ==
    (result.op = "create_joinsplit" /\ ValidSpend(args)) => result.ret.ok

\* C2: a valid spend with one output amount changed by 1 fails with
\* BalanceMismatch and no other error
C2_OffByOneIsBalanceMismatch ==
    (result.op = "create_joinsplit" /\ OneOutputOffByOne(args))
        => result.ret = Err("BalanceMismatch")

\* C4: an input count outside 1..16 gives InvalidInputCount, otherwise an
\* output count outside 1..2 gives InvalidOutputCount, whatever the witnesses
C4_CountErrors ==
    result.op = "create_joinsplit" =>
        /\ args.n \notin 1..MAX_JOINSPLIT_INPUTS
              => result.ret = Err("InvalidInputCount")
        /\ (/\ args.n \in 1..MAX_JOINSPLIT_INPUTS
            /\ Len(args.outputs) \notin 1..MAX_JOINSPLIT_OUTPUTS)
              => result.ret = Err("InvalidOutputCount")
        /\ (/\ args.n \in 1..MAX_JOINSPLIT_INPUTS
            /\ Len(args.outputs) \in 1..MAX_JOINSPLIT_OUTPUTS)
              => result.ret \notin {Err("InvalidInputCount"), Err("InvalidOutputCount")}

C4_Witness ==
    /\ result.op = "create_joinsplit"
    /\ args.n = MAX_JOINSPLIT_INPUTS
    /\ Len(args.outputs) = MAX_JOINSPLIT_OUTPUTS + 1
    /\ args.layout = "no_membership"
    /\ result.ret = Err("InvalidOutputCount")

\* C5: verify(commit(v), v) is Ok(true) for every v in [min, max] and every
\* randomness commit drew
C5_VerifyAcceptsCommitted ==
    (result.op = "verify" /\ result.value = args.value) => result.ret = Ok(TRUE)

C5_Witness ==
    /\ result.op = "verify"
    /\ result.value = args.value
    /\ args.value = parameters.max_coin_value
    /\ result.ret = Ok(TRUE)

\* C6: verify(commit(v), v + 1) is Ok(false) for every v in [min, max],
\* v = max_coin_value included
C6_VerifyRejectsNextValue ==
    (result.op = "verify" /\ result.value = args.value + 1) => result.ret = Ok(FALSE)

\* C7: commit and commit_with_randomness both fail with InvalidCommitment
\* below min_coin_value and above max_coin_value, and commit_with_randomness
\* also on a randomness of the wrong length
C7_SameBoundCheck ==
    /\ (/\ result.op \in {"commit", "commit_with_randomness"}
        /\ (args.value < parameters.min_coin_value
            \/ args.value > parameters.max_coin_value))
          => result.ret = Err("InvalidCommitment")
    /\ (/\ result.op = "commit_with_randomness"
        /\ args.randomness.len # parameters.randomness_bits \div 8)
          => result.ret = Err("InvalidCommitment")

\* C8: create_membership_proof(i), i < n, returns a proof with
\* element_index = i and n path nodes, and verify_membership_proof accepts
\* it while the accumulator still holds the n elements
C8_FreshProofVerifies ==
    /\ (result.op = "create_membership_proof"
        /\ result.index < element_count(accumulator))
          => /\ result.ret.ok
             /\ result.ret.val.element_index = result.index
             /\ Len(result.ret.val.path) = element_count(accumulator)
    /\ (result.op = "verify_membership_proof"
        /\ proof.val.n = element_count(accumulator))
          => result.ret = Ok(TRUE)

\* the hash chain value_0 = H(base), value_i = H(value_{i-1} || element_i)
RECURSIVE ChainValue(_)
ChainValue(elements) ==
    IF elements = <<>> THEN Sha512Hex(parameters.accumulator_base)
    ELSE Sha512Hex(Cat(ChainValue(SubSeq(elements, 1, Len(elements) - 1)),
                       elements[Len(elements)].value))

\* C9: element_count is the number of completed add_coin calls and value is
\* the hash chain over the element log
C9_CountAndChain ==
    /\ element_count(accumulator) = adds
    /\ accumulator.value = ChainValue(accumulator.elements)

C9_Witness ==
    /\ adds = MaxElements
    /\ element_count(accumulator) = MaxElements
    /\ result.op = "add_coin"

IsPrefix(p, q) == Len(p) <= Len(q) /\ SubSeq(q, 1, Len(p)) = p

\* C10: every step of every operation, failed calls included, leaves the
\* earlier element log a prefix of the later one
C10_AppendOnly ==
    [][IsPrefix(accumulator.elements, accumulator'.elements)]_vars

C10_Witness ==
    /\ element_count(accumulator) = MaxElements
    /\ result.op = "create_joinsplit"
    /\ ~result.ret.ok

\* C11: create_membership_proof(index) with index >= element_count (index ==
\* element_count and any index on the empty accumulator included) returns
\* InvalidParameter, hands the caller no proof, and leaves the accumulator's
\* value and element log as they were.
C11_OutOfRangeIndex ==
    [][ ( /\ result'.op = "create_membership_proof"
          /\ result'.index >= element_count(accumulator) )
        => ( /\ result'.ret = Err("InvalidParameter")
             /\ proof' = proof
             /\ accumulator'.value = accumulator.value
             /\ accumulator'.elements = accumulator.elements ) ]_vars

C11_Witness ==
    /\ result.op = "create_membership_proof"
    /\ element_count(accumulator) > 0
    /\ result.index = element_count(accumulator)
    /\ result.ret = Err("InvalidParameter")

RangeProofsPass(joinsplit) ==
    \A i \in 1..Len(joinsplit.proof.range_proofs) :
        range_proof_verify(joinsplit.proof.range_proofs[i]) = Ok(TRUE)

\* C12: verify_joinsplit returns Ok(false), never an error, as soon as any
\* RangeProof of the transaction fails its own verify; when all of them pass
\* it returns exactly what ZKProof::verify returns over the transaction's
\* inputs and outputs and the serialized accumulator as it is at that moment:
\* true for a challenge folding that snapshot, false for one folding the fee.
C12_VerifyJoinsplitResult ==
    result.op = "verify_joinsplit" =>
        LET joinsplit == OfferedJoinSplit(accumulator, result.joinsplit)
        IN  /\ result.ret.ok
            /\ ~RangeProofsPass(joinsplit) => result.ret = Ok(FALSE)
            /\ result.joinsplit.range \in {"bad", "last_bad"} => result.ret = Ok(FALSE)
            /\ RangeProofsPass(joinsplit) =>
                  /\ result.ret = zk_proof_verify(joinsplit.proof.zk_proof,
                                                  joinsplit.inputs, joinsplit.outputs,
                                                  accumulator_serialize(accumulator))
                  /\ result.ret.val = (result.joinsplit.tail = "snapshot")

C12_Witness ==
    /\ result.op = "verify_joinsplit"
    /\ element_count(accumulator) > 0
    /\ result.joinsplit.range = "last_bad"
    /\ result.joinsplit.tail = "snapshot"
    /\ result.ret = Ok(FALSE)

\* C13: every failing path of get_amount returns InvalidWitness and nothing
\* else: a payload shorter than 40 bytes, a stored tag that differs from the
\* recomputed one (a flipped tag byte), a decryption failure, a recovered
\* amount of 0.  A tag mismatch is rejected before decryption is attempted,
\* and get_amount never returns Ok with another amount or with amount 0.
C13_FailuresAreInvalidWitness ==
    result.op = "get_amount" =>
        /\ ~result.ret.ok => result.ret = Err("InvalidWitness")
        /\ args.layout = "short" => result.ret = Err("InvalidWitness")
        /\ args.layout \in {"flipped_tag", "gcm_flipped_tag"} =>
              /\ result.ret = Err("InvalidWitness")
              /\ ~result.decrypt_attempted
        /\ args.layout = "gcm_flipped_ciphertext" => result.ret = Err("InvalidWitness")
        /\ args.wrapped = 0 => result.ret = Err("InvalidWitness")
        /\ result.ret.ok => /\ result.ret.val = args.wrapped
                            /\ result.ret.val # 0

C13_Witness ==
    /\ result.op = "get_amount"
    /\ args.layout = "flipped_tag"
    /\ args.wrapped # 0
    /\ result.ret = Err("InvalidWitness")
    /\ ~result.decrypt_attempted

\* C14: for a witness whose encrypted_value is [nonce/IV and ciphertext
\* block][32-byte tag][optional metadata], at least 40 bytes, with the tag
\* that authenticates it and a ciphertext wrapping the non-zero amount a
\* under the derived key, get_amount returns Ok(a).
C14_WellFormedPayloadDecrypts ==
    ( /\ result.op = "get_amount"
      /\ args.layout \in {"amount8", "amount8_metadata", "gcm", "gcm_metadata"}
      /\ args.wrapped # 0 )
    => result.ret = Ok(args.wrapped)

\* C15: every successful add_coin changes what get_accumulator returns (the
\* serialization right before the call differs from the one right after),
\* and what get_accumulator returns is non-empty in every reachable state,
\* the one before any coin was added included.
C15_AddCoinChangesSnapshot ==
    [][ /\ adds' # adds =>
              accumulator_serialize(accumulator') # accumulator_serialize(accumulator)
        /\ ~is_empty(accumulator_serialize(accumulator))
        /\ ~is_empty(accumulator_serialize(accumulator')) ]_vars

C15_Witness ==
    /\ result.op = "add_coin"
    /\ result.ret.ok
    /\ adds = 2
    /\ element_count(accumulator) = 2
    /\ ~is_empty(accumulator_serialize(accumulator))

\* the keys the cache holds, by number, and the keys ever stored
CachedKeys == { witness_cache[i].key.len : i \in 1..Len(witness_cache) }

StoredKeys == { k \in 1..MaxCacheKeys : hist.stored[k] > 0 }

\* C16: the witness cache never holds more than 1000 entries; storing a new
\* key while it holds 1000 evicts exactly one entry, the one least recently
\* accessed (stored or found by a lookup), and every other entry stays
\* retrievable with the witness last stored under its key.  Stated on the
\* call history: the cache holds the min(1000, keys stored) most recently
\* accessed keys, most recent first, each with its last stored witness.
C16_CacheIsLru ==
    result.op \in {"cache_witness", "get_cached_witness"} =>
        LET n == Len(witness_cache)
            base == VersionedWitness(0)
        IN  /\ n <= 1000
            /\ n = IF Cardinality(StoredKeys) < 1000
                   THEN Cardinality(StoredKeys) ELSE 1000
            /\ \A i \in 1..(n - 1) :
                  hist.access[witness_cache[i].key.len]
                      > hist.access[witness_cache[i + 1].key.len]
            /\ \A k \in StoredKeys \ CachedKeys :
                  hist.access[k] < hist.access[witness_cache[n].key.len]
            /\ \A i \in 1..n :
                  /\ witness_cache[i].key = CacheKeyOf(witness_cache[i].key.len)
                  /\ witness_cache[i].witness =
                       [base EXCEPT !.index = hist.stored[witness_cache[i].key.len]]
            /\ result.op = "get_cached_witness" =>
                  IF result.key \in CachedKeys
                  THEN result.ret = Some(VersionedWitness(hist.stored[result.key]))
                  ELSE result.ret = None

\* a lookup made key 1 the most recent entry of the full cache, so storing
\* key 1001 evicted key 2 and kept key 1
C16_Witness ==
    /\ result.op = "cache_witness"
    /\ result.key = CACHE_CAPACITY + 1
    /\ Len(witness_cache) = CACHE_CAPACITY
    /\ 1 \in CachedKeys
    /\ 2 \notin CachedKeys

WriteSection == {"add_coin:add_element", "add_coin:push", "add_coin:return"}

ReadSection == {"get_accumulator:serialize", "verify_joinsplit:zk_proof"}

\* C17: on the accumulator lock a write excludes everything else: while one
\* add_coin is in its critical section, no get_accumulator read, no
\* verify_joinsplit snapshot read and no other add_coin is in its own; any
\* number of reads may be inside at the same time (C17_Witness).
C17_WriteExcludesAll ==
    \A t \in DOMAIN pc :
        pc[t].at \in WriteSection =>
            \A u \in DOMAIN pc \ {t} : pc[u].at \notin WriteSection \cup ReadSection

\* a get_accumulator and two verify_joinsplit reads, or the like, inside at
\* once, after an add_coin has been through its own section
C17_Witness ==
    /\ pc # NoThreads
    /\ element_count(accumulator) > 0
    /\ \A t \in Threads : pc[t].at \in ReadSection
    /\ \E t, u \in Threads : /\ pc[t].at = "get_accumulator:serialize"
                              /\ pc[u].at = "verify_joinsplit:zk_proof"

\* C18: a pending add_coin is not starved by readers: with the other threads
\* issuing get_accumulator and verify_joinsplit without pause, an add_coin
\* waiting for the lock eventually acquires it and completes.
C18_WriterNotStarved ==
    \A t \in Threads : (pc[t].at = "add_coin:write") ~> (pc[t].at = "idle")

C18_Witness ==
    /\ pc # NoThreads
    /\ \E t \in Threads :
          /\ pc[t].at = "add_coin:wait_for_readers"
          /\ lock.readers = Threads \ {t}

\* C19: in create_joinsplit with valid counts, an input whose recovered
\* amount is 0 or exceeds u64::MAX / 2 is rejected with BalanceMismatch, and
\* so is an overflow of the checked sum of the input amounts.
C19_AmountEdgesAreBalanceMismatch ==
    ( /\ result.op = "create_joinsplit"
      /\ CheckCounts(JSInputs(args), args.outputs).ok
      /\ \/ args.amount = 0
         \/ args.amount > MAX_COIN_VALUE
         \/ args.amount > U64_MAX \div args.n )
    => result.ret = Err("BalanceMismatch")

\* C20: a ZKProof built by ZKProof::create over given inputs, outputs and fee
\* never verifies through verify_joinsplit: in every reachable accumulator
\* state ZKProof::verify with the same commitments and the serialized
\* accumulator returns false (creation folds the fee into the challenge,
\* verification the snapshot).
C20_CreatedProofNeverVerifies ==
    /\ ( result.op = "verify_joinsplit" /\ result.joinsplit.range = "created" )
          => result.ret = Ok(FALSE)
    /\ \A fee \in OfferedFees :
          LET joinsplit == OfferedJoinSplit(accumulator,
                              [range |-> "created", tail |-> "fee", fee |-> fee])
          IN  zk_proof_verify(joinsplit.proof.zk_proof, joinsplit.inputs,
                              joinsplit.outputs, accumulator_serialize(accumulator))
                = Ok(FALSE)

C20_Witness ==
    /\ result.op = "verify_joinsplit"
    /\ result.joinsplit.range = "created"
    /\ result.joinsplit.fee = 1
    /\ element_count(accumulator) = 2
    /\ result.ret = Ok(FALSE)

\* the hash chain over the node values of a path, started from the raw base
RECURSIVE ChainFromBase(_)
ChainFromBase(path) ==
    IF path = <<>> THEN parameters.accumulator_base
    ELSE Sha512Hex(Cat(ChainFromBase(SubSeq(path, 1, Len(path) - 1)),
                       path[Len(path)].value))

\* C21: verify_membership_proof returns Ok(false), never an error, when
\* proof.element_index >= element_count; otherwise it returns true exactly
\* when the hash chain replayed from accumulator_base through proof.path
\* equals proof.accumulator_value.  The result depends on nothing else: not
\* on the is_left flags, not on the live accumulator's value or elements.
C21_VerifyMembershipProofResult ==
    result.op = "verify_membership_proof" =>
        LET p == ProofOf(args)
        IN  /\ result.ret.ok
            /\ args.index >= element_count(accumulator) => result.ret = Ok(FALSE)
            /\ args.index < element_count(accumulator) =>
                  /\ result.ret.val = (ChainFromBase(p.path) = p.accumulator_value)
                  /\ result.ret.val = (args.value = "replayed")

\* accepted: a proof over a path of another length than the element log,
\* with inverted flags, whose value is the replay of its own path
C21_Witness ==
    /\ result.op = "verify_membership_proof"
    /\ args.index < element_count(accumulator)
    /\ args.path_len # element_count(accumulator)
    /\ args.flags = "inverted"
    /\ args.value = "replayed"
    /\ result.ret = Ok(TRUE)

\* the accumulator as it was when it held the first n of its elements
AccumulatorAt(n) ==
    [ value |-> ChainValue(SubSeq(accumulator.elements, 1, n)),
      elements |-> SubSeq(accumulator.elements, 1, n) ]

\* C22: a membership proof is self-contained: for a proof created when the
\* accumulator held n elements, verify_membership_proof gives the same
\* result right after creation and after any number of later additions, and
\* the proof's accumulator_value stays the accumulator's value at creation
\* time instead of following the live value.
C22_ProofIsSelfContained ==
    proof.some =>
        /\ proof.val.n <= element_count(accumulator)
        /\ proof.val.p.accumulator_value = AccumulatorAt(proof.val.n).value
        /\ proof.val.n < element_count(accumulator) =>
              proof.val.p.accumulator_value # accumulator.value
        /\ result.op = "verify_membership_proof" =>
              result.ret = verify_membership_proof(AccumulatorAt(proof.val.n),
                                                   proof.val.p)

C22_Witness ==
    /\ proof.some
    /\ proof.val.n = 1
    /\ element_count(accumulator) = 3
    /\ result.op = "verify_membership_proof"

CacheContents(cache) == { cache[i] : i \in 1..Len(cache) }

\* C23: create_joinsplit, whatever it returns, and verify_joinsplit change
\* neither the accumulator nor the witness cache, and add_coin never changes
\* the witness cache: the cache's contents change only through
\* cache_witness (its recency order also through get_cached_witness), and
\* the accumulator changes only through add_coin.
C23_FrameEffects ==
    [][ /\ result'.op \in {"create_joinsplit", "verify_joinsplit"} =>
              /\ accumulator' = accumulator
              /\ witness_cache' = witness_cache
        /\ result'.op = "add_coin" => witness_cache' = witness_cache
        /\ accumulator' # accumulator => result'.op = "add_coin"
        /\ witness_cache' # witness_cache =>
              result'.op \in {"cache_witness", "get_cached_witness"}
        /\ CacheContents(witness_cache') # CacheContents(witness_cache) =>
              result'.op = "cache_witness" ]_vars

\* create_joinsplit has returned on a state with coins and cached witnesses
C23_Witness ==
    /\ result.op = "create_joinsplit"
    /\ ~result.ret.ok
    /\ element_count(accumulator) = 2
    /\ Len(witness_cache) = 2
\* the places of an add_coin call whose element is not in the log yet
BeforePush == {"add_coin:write", "add_coin:wait_for_readers",
               "add_coin:add_element", "add_coin:push"}

\* the places of an add_coin call that has not returned
InAddCoin == BeforePush \cup {"add_coin:return"}

\* C24: add_coin is atomic for its concurrent callers: no append is lost (the
\* log holds one element for every add_coin call made, less the calls that
\* have not pushed yet, so exactly k elements once k calls have returned and
\* none is under way), and every snapshot get_accumulator returns (what it
\* serializes under its read guard) is the serialization of an accumulator
\* whose value is the hash chain over exactly the elements it contains.
C24_AddCoinIsAtomic ==
    /\ element_count(accumulator) =
           adds - Cardinality({ t \in DOMAIN pc : pc[t].at \in BeforePush })
    /\ (\A t \in DOMAIN pc : pc[t].at \notin InAddCoin) =>
           /\ element_count(accumulator) = adds
           /\ accumulator.value = ChainValue(accumulator.elements)
    /\ \A t \in DOMAIN pc :
          pc[t].at = "get_accumulator:serialize" =>
             \E k \in 0..adds :
                LET elements == [ i \in 1..k |-> LockCoin ]
                IN  accumulator_serialize(accumulator) = accumulator_serialize(
                       [ value |-> ChainValue(elements), elements |-> elements ])

\* a snapshot of one element being returned while a second add_coin is
\* queued behind the reader
C24_Witness ==
    /\ pc # NoThreads
    /\ accumulator_serialize(accumulator) =
          accumulator_serialize(add_element(accumulator_new.val, LockCoin))
    /\ adds = 2
    /\ \E t \in Threads : pc[t].at = "add_coin:wait_for_readers"
    /\ \E t \in Threads : pc[t].at = "get_accumulator:serialize"

\* the threads holding a guard of the accumulator lock, of the cache lock
HoldsAccumulator == lock.readers \cup (IF lock.exclusive THEN {lock.writer} ELSE {})

HoldsCache == {lock.cache_writer} \ {""}

\* C25: no call holds the accumulator lock and the witness-cache lock at the
\* same time; whenever a call is under way some call under way can take its
\* next step (no deadlock); and with fair locks every call returns.
C25_NoDeadlockAndReturn ==
    /\ [](HoldsAccumulator \cap HoldsCache = {})
    /\ []((\E t \in Threads : pc[t].at # "idle") =>
             \E t \in Threads : ENABLED <<Acquire(t) \/ Proceed(t)>>_vars)
    /\ \A t \in Threads : (pc[t].at # "idle") ~> (pc[t].at = "idle")

\* one thread inside add_coin, one inside the cache, the third waiting for
\* the cache lock
C25_Witness ==
    /\ pc # NoThreads
    /\ HoldsCache # {}
    /\ lock.exclusive
    /\ \E t \in Threads : pc[t].at \in {"cache_witness:write", "get_cached_witness:write"}
    /\ Len(witness_cache) = 1
\* C26: verify_joinsplit accepts only genuine transactions: it returns true
\* only for a JoinSplit built by create_joinsplit's proof generation, never
\* for one a caller assembled from public data (any range-proof list, a
\* challenge, response and proof_data computed by the caller).
C26_OnlyCreatedAccepted ==
    ( result.op = "verify_joinsplit" /\ result.ret = Ok(TRUE) )
        => result.joinsplit.range = "created"
====
